---- MODULE Spec2Model ----
(***************************************************************************)
(* NDAXClient (src/ndax_trader/__init__.py): a WebSocket client that       *)
(* writes JSON request frames numbered by request_sequence_number and      *)
(* prints what it reads.  The model covers the client object, the threads  *)
(* that run on it (callers and the readers start() spawns), the socket     *)
(* objects connect() creates and the text that crosses the socket.         *)
(*                                                                         *)
(* Text is a sequence of symbols.  The symbols with a meaning for JSON are *)
(* the quote, the backslash, braces, colon, comma, blank, minus, digits    *)
(* and the literals true, false and null; every other symbol is a run of   *)
(* plain characters.                                                       *)
(***************************************************************************)
EXTENDS Integers, Sequences, FiniteSets, TLC

\* ------------------------------------------------------------------ bounds
\* Frames the callers may get accepted by the socket in one run.
MaxCalls == 1
\* Threads start() may spawn in one run.
MaxStarts == 2

\* Threads are named by numbers: the thread that makes the calls by -1, the
\* reader threads start() spawns by 1, 2, ...
Callers == {-1}
Readers == 1..MaxStarts
\* A WebSocketApp object is named by a number: 0 is the one __init__ makes,
\* and each on_close makes the next one.
Apps == 0..MaxStarts
\* No socket: WebSocketApp.sock is None.
NoSock == 0

\* ------------------------------------------------------------- JSON values
Q == "\""
BS == "\\"
DigitSym == <<"0", "1", "2", "3", "4", "5", "6", "7", "8", "9">>
Digits == {DigitSym[k] : k \in 1..10}
DigitVal(c) == (CHOOSE k \in 1..10 : DigitSym[k] = c) - 1

\* A value is a record of one shape: t names the type, n holds an int (or a
\* bool as 0/1), s a string's symbols and d a dict's members.
JInt(n) == [t |-> "int", n |-> n, s |-> <<>>, d |-> <<>>]
JStr(s) == [t |-> "str", n |-> 0, s |-> s, d |-> <<>>]
JBool(b) == [t |-> "bool", n |-> IF b THEN 1 ELSE 0, s |-> <<>>, d |-> <<>>]
JNull == [t |-> "null", n |-> 0, s |-> <<>>, d |-> <<>>]
JDict(items) == [t |-> "dict", n |-> 0, s |-> <<>>, d |-> items]
\* One member of a dict, in insertion order.
Item(k, val) == [k |-> k, val |-> val]

\* dict.get(key, default): the last member named key.
RECURSIVE GetFrom(_, _, _, _)
GetFrom(items, key, default, n) ==
  IF n = 0 THEN default
  ELSE IF items[n].k = key THEN items[n].val
  ELSE GetFrom(items, key, default, n - 1)
Get(x, key, default) == GetFrom(x.d, key, default, Len(x.d))

\* -------------------------------------------------------------- json.dumps
\* A string's symbols as json.dumps writes them: a backslash before each
\* quote and each backslash.  (Halving keeps the evaluation shallow.)
RECURSIVE Escape(_)
Escape(s) ==
  IF s = <<>> THEN <<>>
  ELSE IF Len(s) = 1
    THEN (IF s[1] = Q THEN <<BS, Q>>
          ELSE IF s[1] = BS THEN <<BS, BS>>
          ELSE s)
  ELSE Escape(SubSeq(s, 1, Len(s) \div 2))
       \o Escape(SubSeq(s, Len(s) \div 2 + 1, Len(s)))

DumpsStr(s) == <<Q>> \o Escape(s) \o <<Q>>

RECURSIVE DumpsNat(_)
DumpsNat(n) ==
  IF n < 10 THEN <<DigitSym[n + 1]>>
  ELSE DumpsNat(n \div 10) \o <<DigitSym[(n % 10) + 1]>>

DumpsInt(n) == IF n < 0 THEN <<"-">> \o DumpsNat(0 - n) ELSE DumpsNat(n)

RECURSIVE Dumps(_)
RECURSIVE DumpsItems(_)
DumpsItems(items) ==
  IF items = <<>> THEN <<>>
  ELSE DumpsStr(Head(items).k) \o <<":", " ">> \o Dumps(Head(items).val)
       \o (IF Tail(items) = <<>> THEN <<>> ELSE <<",", " ">>)
       \o DumpsItems(Tail(items))

Dumps(x) ==
  CASE x.t = "int" -> DumpsInt(x.n)
    [] x.t = "str" -> DumpsStr(x.s)
    [] x.t = "bool" -> IF x.n = 1 THEN <<"true">> ELSE <<"false">>
    [] x.t = "null" -> <<"null">>
    [] x.t = "dict" -> <<"{">> \o DumpsItems(x.d) \o <<"}">>

\* -------------------------------------------------------------- json.loads
\* A parse: ok, the value read, and the position after it.
Parsed(x, n) == [ok |-> TRUE, v |-> x, next |-> n]
Failed == [ok |-> FALSE, v |-> JNull, next |-> 0]

RECURSIVE SkipWs(_, _)
SkipWs(s, i) == IF i <= Len(s) /\ s[i] = " " THEN SkipWs(s, i + 1) ELSE i

\* In what follows a value that is used more than once is bound by
\* x \in {e}, so that it is computed once: CHOOSE r \in {F(x) : x \in {e}} : TRUE
\* is F(e).

\* The place of the first quote or backslash of s from i on, Len(s) + 1 if
\* there is none.
NextSpecial(s, i) ==
  LET places == {j \in i..Len(s) : s[j] \in {Q, BS}}
  IN IF places = {} THEN Len(s) + 1
     ELSE CHOOSE j \in places : \A k \in places : j <= k

\* The string's symbols up to the closing quote, the escapes undone.
RECURSIVE ParseStrBody(_, _, _)
ParseStrBody(s, i, acc) ==
  CHOOSE r \in
    { IF j > Len(s) THEN Failed
      ELSE IF s[j] = Q THEN Parsed(JStr(acc \o SubSeq(s, i, j - 1)), j + 1)
      ELSE IF j + 1 <= Len(s) /\ s[j + 1] \in {Q, BS}
        THEN ParseStrBody(s, j + 2,
                          Append(acc \o SubSeq(s, i, j - 1), s[j + 1]))
      ELSE Failed
      : j \in {NextSpecial(s, i)} } : TRUE

ParseStr(s, i) ==
  IF i <= Len(s) /\ s[i] = Q THEN ParseStrBody(s, i + 1, <<>>) ELSE Failed

RECURSIVE ParseDigits(_, _, _)
ParseDigits(s, i, acc) ==
  IF i <= Len(s) /\ s[i] \in Digits
    THEN ParseDigits(s, i + 1, 10 * acc + DigitVal(s[i]))
    ELSE Parsed(JInt(acc), i)

\* A JSON number: no leading zero before another digit.
ParseNat(s, i) ==
  IF i > Len(s) \/ s[i] \notin Digits THEN Failed
  ELSE IF s[i] = "0" THEN Parsed(JInt(0), i + 1)
  ELSE ParseDigits(s, i, 0)

ParseInt(s, i) ==
  IF i <= Len(s) /\ s[i] = "-"
    THEN CHOOSE r \in
           { IF p.ok THEN Parsed(JInt(0 - p.v.n), p.next) ELSE Failed
             : p \in {ParseNat(s, i + 1)} } : TRUE
    ELSE ParseNat(s, i)

RECURSIVE ParseValue(_, _)

\* After a member's key, colon and value: the dict ends or goes on.
RECURSIVE ParseMembers(_, _, _)
AfterMember(s, e, items) ==
  IF e > Len(s) THEN Failed
  ELSE IF s[e] = "}" THEN Parsed(JDict(items), e + 1)
  ELSE IF s[e] = "," THEN ParseMembers(s, SkipWs(s, e + 1), items)
  ELSE Failed

\* After a member's key and colon: its value.
AfterColon(s, c, key, acc) ==
  CHOOSE r \in
    { IF ~val.ok THEN Failed
      ELSE CHOOSE q \in
             { AfterMember(s, e, items)
               : e \in {SkipWs(s, val.next)},
                 items \in {Append(acc, Item(key.v.s, val.v))} } : TRUE
      : val \in {ParseValue(s, SkipWs(s, c + 1))} } : TRUE

ParseMembers(s, i, acc) ==
  CHOOSE r \in
    { IF ~key.ok THEN Failed
      ELSE CHOOSE q \in
             { IF c > Len(s) \/ s[c] # ":" THEN Failed
               ELSE AfterColon(s, c, key, acc)
               : c \in {SkipWs(s, key.next)} } : TRUE
      : key \in {ParseStr(s, i)} } : TRUE

ParseValue(s, i) ==
  IF i > Len(s) THEN Failed
  ELSE IF s[i] = Q THEN ParseStr(s, i)
  ELSE IF s[i] = "{"
    THEN CHOOSE r \in
           { IF j <= Len(s) /\ s[j] = "}" THEN Parsed(JDict(<<>>), j + 1)
             ELSE ParseMembers(s, j, <<>>)
             : j \in {SkipWs(s, i + 1)} } : TRUE
  ELSE IF s[i] = "true" THEN Parsed(JBool(TRUE), i + 1)
  ELSE IF s[i] = "false" THEN Parsed(JBool(FALSE), i + 1)
  ELSE IF s[i] = "null" THEN Parsed(JNull, i + 1)
  ELSE ParseInt(s, i)

\* json.loads(s): ok is FALSE where Python raises JSONDecodeError.
Loads(s) ==
  CHOOSE r \in
    { IF p.ok /\ SkipWs(s, p.next) = Len(s) + 1 THEN p ELSE Failed
      : p \in {ParseValue(s, SkipWs(s, 1))} } : TRUE


\* ------------------------------------------------------------------- state
VARIABLES
  request_sequence_number, \* NDAXClient.request_sequence_number
  ws,       \* NDAXClient.ws: the WebSocketApp object the client holds
  sock,     \* sock[a]: WebSocketApp a's sock (NoSock, or a connection)
  env,      \* os.environ: USERNAME, PASSWORD, 2FA_SECRET_KEY, ACCOUNT_ID
  pc,       \* pc[th]: where thread th is
  local,    \* local[th]: the locals of the call or callback th is in
  result,   \* result[c]: how caller c's call ended, until c goes on
  app,      \* app[t]: the WebSocketApp whose run_forever reader t runs
  conn,     \* conn[t]: the connection reader t makes: none, open, closed
  sent      \* the frames the sockets accepted, in order

vars == <<request_sequence_number, ws, sock, env, pc, local, result, app,
          conn, sent>>

Threads == Callers \cup Readers

\* An environment variable: unset (os.environ.get gives None) or a string.
Unset == [set |-> FALSE, s |-> <<>>]
Val(s) == [set |-> TRUE, s |-> s]
\* Python's truth of os.environ.get(name): None and "" are false.
Truthy(e) == e.set /\ e.s # <<>>

\* The settings the runs start from.  Each call reads only its own settings,
\* and each setting is met set and unset, the account also empty and zero.
EnvConfigs ==
  { [USERNAME |-> Val(<<"user">>), PASSWORD |-> Val(<<"pa", Q, BS, "ss">>),
     SECRET |-> Val(<<"BASE32">>), ACCOUNT_ID |-> Unset],
    [USERNAME |-> Unset, PASSWORD |-> Unset,
     SECRET |-> Unset, ACCOUNT_ID |-> Val(<<"7">>)],
    [USERNAME |-> Val(<<"user">>), PASSWORD |-> Unset,
     SECRET |-> Unset, ACCOUNT_ID |-> Val(<<>>)],
    [USERNAME |-> Unset, PASSWORD |-> Val(<<"pa", Q, BS, "ss">>),
     SECRET |-> Unset, ACCOUNT_ID |-> Val(<<"0">>)] }

\* pyotp's TOTP(secret).now(): a string of digits that depends on the clock.
TotpCodes == {<<"0", "4", "2">>}

\* The locals of a thread: of _send_request (method_name, payload, frame and
\* the counter as `+= 2` read it), of on_message (message) and of a callback
\* that raised (err, and where run_forever goes on after on_error).
NoLocal ==
  [method_name |-> "", payload |-> JNull, frame |-> JNull, loaded |-> 0,
   message |-> <<>>, err |-> "", after |-> ""]

\* How a call ended: it returned value, or the call for method `call` raised
\* err.
NoResult == [how |-> "none", value |-> JNull, call |-> "", err |-> ""]
Returned(call, value) == [how |-> "returned", value |-> value, call |-> call, err |-> ""]
Raised(call, err) == [how |-> "raised", value |-> JNull, call |-> call, err |-> err]

\* ----------------------------------------------------------- construction
\* __init__: the counter starts at 2 and connect() makes the first socket
\* object; no thread runs yet.
Init ==
  /\ request_sequence_number = 2
  /\ ws = 0
  /\ sock = [a \in Apps |-> NoSock]
  /\ env \in EnvConfigs
  /\ pc = [th \in Threads |-> IF th \in Callers THEN "idle" ELSE "unstarted"]
  /\ local = [th \in Threads |-> NoLocal]
  /\ result = [c \in Callers |-> NoResult]
  /\ app = [t \in Readers |-> 0]
  /\ conn = [t \in Readers |-> "none"]
  /\ sent = <<>>

\* ----------------------------------------------------------- _send_request
\* A _send_request that puts the payload into the frame as it is, without
\* json.dumps.
FrameUnserialized(method_name, payload, seq) ==
  JDict(<<Item(<<"m">>, JInt(0)),
          Item(<<"i">>, JInt(seq)),
          Item(<<"n">>, JStr(<<method_name>>)),
          Item(<<"o">>, payload)>>)

\* The frame of lines 101-106.
Frame(method_name, payload, seq) ==
  JDict(<<Item(<<"m">>, JInt(0)),
          Item(<<"i">>, JInt(seq)),
          Item(<<"n">>, JStr(<<method_name>>)),
          Item(<<"o">>, JStr(Dumps(payload)))>>)

\* The number of a frame.
FrameId(f) == Get(f, <<"i">>, JNull).n

\* A connect() that starts the counter again with the new socket object.
connect_reset ==
  /\ ws' = ws + 1
  /\ request_sequence_number' = 2

\* connect(), lines 35-43: a new WebSocketApp object replaces self.ws; the
\* counter is left as it is.
connect ==
  /\ ws' = ws + 1
  /\ UNCHANGED request_sequence_number

\* A callback raised err in reader t: WebSocketApp._callback catches it and
\* calls on_error; run_forever then goes on at `after`.
CallbackRaises(t, err, after) ==
  /\ pc' = [pc EXCEPT ![t] = "on_error"]
  /\ local' = [local EXCEPT ![t] = [NoLocal EXCEPT !.err = err, !.after = after]]

\* The frames callers got accepted or are about to send.
CallerFrames ==
  Cardinality({k \in DOMAIN sent : sent[k].by \in Callers})
  + Cardinality({c \in Callers : pc[c] = "send"})

\* Lines 101-106: the frame is built from the counter as it is now; th goes
\* on to send it.
BuildFrame(th, method_name, payload) ==
  /\ local' = [local EXCEPT ![th] =
       [NoLocal EXCEPT !.method_name = method_name, !.payload = payload,
          !.frame = Frame(method_name, payload, request_sequence_number)]]
  /\ pc' = [pc EXCEPT ![th] = "send"]

\* A caller's call gets as far as _send_request.
CallerSends(c, method_name, payload) ==
  /\ CallerFrames < MaxCalls
  /\ BuildFrame(c, method_name, payload)
  /\ UNCHANGED <<request_sequence_number, ws, sock, env, result, app, conn,
                 sent>>

\* A caller's call raises before it reaches _send_request.
CallerRaises(c, method_name, err) ==
  /\ result' = [result EXCEPT ![c] = Raised(method_name, err)]
  /\ pc' = [pc EXCEPT ![c] = "ended"]
  /\ UNCHANGED <<request_sequence_number, ws, sock, env, local, app, conn,
                 sent>>

\* WebSocketApp.send writes to the object's sock, and raises when there is
\* none or it is not connected.
CanSend(a) == sock[a] # NoSock /\ conn[sock[a]] = "open"

\* Line 107: self.ws.send(json.dumps(frame)).  In a caller the exception goes
\* to the caller; in a reader (on_open) it goes to on_error.
SendFrame(th) ==
  /\ pc[th] = "send"
  /\ IF CanSend(ws)
       THEN /\ sent' = Append(sent,
                 [conn |-> sock[ws], by |-> th,
                  text |-> Dumps(local[th].frame),
                  frame |-> local[th].frame,
                  method_name |-> local[th].method_name,
                  payload |-> local[th].payload])
            /\ pc' = [pc EXCEPT ![th] = "load"]
            /\ UNCHANGED <<local, result>>
       ELSE /\ UNCHANGED sent
            /\ IF th \in Callers
                 THEN /\ pc' = [pc EXCEPT ![th] = "ended"]
                      /\ local' = [local EXCEPT ![th] = NoLocal]
                      /\ result' = [result EXCEPT ![th] =
                           Raised(local[th].method_name,
                                  "WebSocketConnectionClosedException")]
                 ELSE /\ CallbackRaises(th, "WebSocketConnectionClosedException",
                                        "reading")
                      /\ UNCHANGED result
  /\ UNCHANGED <<request_sequence_number, ws, sock, env, app, conn>>

\* Line 108, first half: `+= 2` reads the counter.
LoadCounter(th) ==
  /\ pc[th] = "load"
  /\ local' = [local EXCEPT ![th].loaded = request_sequence_number]
  /\ pc' = [pc EXCEPT ![th] = "store"]
  /\ UNCHANGED <<request_sequence_number, ws, sock, env, result, app, conn,
                 sent>>

\* A `+= 1` in the place of the `+= 2`.
IncrementedByOne(n) == n + 1

\* What `+= 2` writes, from what it read.
Incremented(n) == n + 2

\* Line 108, second half: `+= 2` writes the counter; _send_request returns
\* None.
StoreCounter(th) ==
  /\ pc[th] = "store"
  /\ request_sequence_number' = Incremented(local[th].loaded)
  /\ local' = [local EXCEPT ![th] = NoLocal]
  /\ IF th \in Callers
       THEN /\ pc' = [pc EXCEPT ![th] = "ended"]
            /\ result' = [result EXCEPT ![th] =
                 Returned(local[th].method_name, JNull)]
       ELSE /\ pc' = [pc EXCEPT ![th] = "reading"]
            /\ UNCHANGED result
  /\ UNCHANGED <<ws, sock, env, app, conn, sent>>

\* The call is over: the caller has its return value or its exception and
\* goes on.
Return(c) ==
  /\ pc[c] = "ended"
  /\ pc' = [pc EXCEPT ![c] = "idle"]
  /\ result' = [result EXCEPT ![c] = NoResult]
  /\ UNCHANGED <<request_sequence_number, ws, sock, env, local, app, conn,
                 sent>>

\* ------------------------------------------------------- the request calls
\* int(os.environ.get(name)): TypeError for None, ValueError for a string
\* that is no number.
IsNumber(s) == s # <<>> /\ \A k \in DOMAIN s : s[k] \in Digits
IntOf(s) == ParseDigits(s, 1, 0).v.n

\* Lines 120-123.
AuthPayload ==
  JDict(<<Item(<<"UserName">>, JStr(env.USERNAME.s)),
          Item(<<"Password">>, JStr(env.PASSWORD.s))>>)

\* Line 117: both credentials are set and not empty.
HasCredentials == Truthy(env.USERNAME) /\ Truthy(env.PASSWORD)

\* Line 132.
HasSecret == Truthy(env.SECRET)

\* Lines 110-124.
authenticate(c) ==
  /\ pc[c] = "idle"
  /\ IF ~HasCredentials
       THEN CallerRaises(c, "authenticateuser", "ValueError")
       ELSE CallerSends(c, "authenticateuser", AuthPayload)

\* Lines 127-138.
authenticate_2fa(c) ==
  /\ pc[c] = "idle"
  /\ IF ~HasSecret
       THEN CallerRaises(c, "Authenticate2FA", "ValueError")
       ELSE \E code \in TotpCodes :
              CallerSends(c, "Authenticate2FA",
                          JDict(<<Item(<<"Code">>, JStr(code))>>))

\* Lines 140-148: the setting is looked at before int() is applied to it.
get_account_positions(c) ==
  /\ pc[c] = "idle"
  /\ IF ~Truthy(env.ACCOUNT_ID) \/ ~IsNumber(env.ACCOUNT_ID.s)
       THEN CallerRaises(c, "GetAccountPositions", "ValueError")
       ELSE CallerSends(c, "GetAccountPositions",
              JDict(<<Item(<<"AccountId">>, JInt(IntOf(env.ACCOUNT_ID.s))),
                      Item(<<"OMSId">>, JInt(1))>>))

\* instrument_id and symbol as the caller gives them (JNull: not given).
Level1Args ==
  { [instrument_id |-> JNull, symbol |-> JStr(<<"BTC", Q, "CAD">>)] }

\* Lines 157-161 and 259-263.
Level1Payload(a) ==
  JDict(<<Item(<<"OMSId">>, JInt(1)),
          Item(<<"InstrumentId">>,
               IF a.instrument_id # JNull THEN a.instrument_id ELSE JInt(0)),
          Item(<<"Symbol">>,
               IF a.symbol # JNull THEN a.symbol ELSE JStr(<<>>))>>)

\* Lines 150-162.
subscribe_level1(c) ==
  /\ pc[c] = "idle"
  /\ \E a \in Level1Args : CallerSends(c, "SubscribeLevel1", Level1Payload(a))

\* Lines 252-264.
unsubscribe_level1(c) ==
  /\ pc[c] = "idle"
  /\ \E a \in Level1Args : CallerSends(c, "UnsubscribeLevel1", Level1Payload(a))

\* What ends a call that takes the account from the environment the way
\* lines 240-408 do: the payload is built first, with int() applied to the
\* setting, and the setting is looked at afterwards.  "" is no error.
AccountError ==
  IF ~env.ACCOUNT_ID.set THEN "TypeError"
  ELSE IF ~IsNumber(env.ACCOUNT_ID.s) THEN "ValueError"
  ELSE IF IntOf(env.ACCOUNT_ID.s) = 0 THEN "ValueError"
  ELSE ""

\* Such a call; rest is what follows AccountId in its payload.
AccountCall(c, method_name, rest) ==
  /\ pc[c] = "idle"
  /\ IF AccountError # "" THEN CallerRaises(c, method_name, AccountError)
     ELSE CallerSends(c, method_name,
            JDict(<<Item(<<"OMSId">>, JInt(1)),
                    Item(<<"AccountId">>, JInt(IntOf(env.ACCOUNT_ID.s)))>>
                  \o rest))

\* Lines 310-320.
getaccountinfo(c) == AccountCall(c, "GetAccountInfo", <<>>)

\* Lines 346-356.
cancellallorders(c) == AccountCall(c, "CancelAllOrders", <<>>)

\* Lines 373-383.
getopenorders(c) == AccountCall(c, "GetOpenOrders", <<>>)

OrderIds == {JInt(31)}

\* Lines 358-371.
cancelorder(c) ==
  \E order_id \in OrderIds :
    AccountCall(c, "CancelOrder", <<Item(<<"OrderId">>, order_id)>>)

\* price as the caller gives it (JNull: not given).
OrderPrices == {JNull}

\* Lines 385-408: an order to buy 1 of instrument 1.
sendorder(c) ==
  \E price \in OrderPrices :
    AccountCall(c, "SendOrder",
      <<Item(<<"InstrumentId">>, JInt(1)),
        Item(<<"TimeInForce">>, JInt(1)),
        Item(<<"Side">>, JInt(0)),
        Item(<<"OrderType">>, JInt(2)),
        Item(<<"UseDisplayQuantity">>, JBool(FALSE)),
        Item(<<"Quantity">>, JInt(1)),
        Item(<<"LimitPrice">>, IF price # JNull THEN price ELSE JInt(0))>>)

\* ---------------------------------------------------------------- threads
\* Lines 45-50: a new thread that runs run_forever of the socket object the
\* client holds now.  Nothing is kept of the thread, nothing is looked at
\* before it is made, and the caller goes on at once.
start(c) ==
  /\ pc[c] = "idle"
  /\ \E t \in Readers :
       /\ pc[t] = "unstarted"
       /\ \A u \in Readers : u < t => pc[u] # "unstarted"
       /\ app' = [app EXCEPT ![t] = ws]
       /\ pc' = [pc EXCEPT ![t] = "check"]
  /\ UNCHANGED <<request_sequence_number, ws, sock, env, local, result, conn,
                 sent>>

\* WebSocketApp.run_forever, as start() runs it (no reconnect argument).
\* It refuses to run on an object whose sock is set: the thread ends with
\* "socket is already opened".
run_forever_check(t) ==
  /\ pc[t] = "check"
  /\ pc' = [pc EXCEPT ![t] = IF sock[app[t]] # NoSock THEN "raised" ELSE "connect"]
  /\ UNCHANGED <<request_sequence_number, ws, sock, env, local, result, app,
                 conn, sent>>

\* run_forever sets its object's sock to a new WebSocket and connects it.
\* The connection is made, and on_open is next, or it is refused: on_error
\* is called and run_forever goes on to tear down.
run_forever_connect(t) ==
  /\ pc[t] = "connect"
  /\ sock' = [sock EXCEPT ![app[t]] = t]
  /\ \/ /\ conn' = [conn EXCEPT ![t] = "open"]
        /\ pc' = [pc EXCEPT ![t] = "on_open"]
        /\ UNCHANGED local
     \/ /\ CallbackRaises(t, "ConnectionRefusedError", "teardown")
        /\ UNCHANGED conn
  /\ UNCHANGED <<request_sequence_number, ws, env, result, app, sent>>

\* An on_open that remembers that the credentials were sent once and does
\* not send them again on a later connection.
on_open_once(t) ==
  /\ pc[t] = "on_open"
  /\ IF ~HasCredentials
       THEN CallbackRaises(t, "ValueError", "reading")
       ELSE IF \E k \in DOMAIN sent : sent[k].method_name = "authenticateuser"
         THEN /\ pc' = [pc EXCEPT ![t] = "reading"]
              /\ UNCHANGED local
         ELSE BuildFrame(t, "authenticateuser", AuthPayload)
  /\ UNCHANGED <<request_sequence_number, ws, sock, env, result, app, conn,
                 sent>>

\* Lines 52-59 with authenticate (lines 110-124) as on_open calls it: in the
\* reader thread, through self.ws, with nothing kept from earlier
\* connections.
on_open(t) ==
  /\ pc[t] = "on_open"
  /\ IF ~HasCredentials
       THEN CallbackRaises(t, "ValueError", "reading")
       ELSE BuildFrame(t, "authenticateuser", AuthPayload)
  /\ UNCHANGED <<request_sequence_number, ws, sock, env, result, app, conn,
                 sent>>

\* Lines 74-81: on_error prints the exception; run_forever goes on.
on_error(t) ==
  /\ pc[t] = "on_error"
  /\ pc' = [pc EXCEPT ![t] = local[t].after]
  /\ local' = [local EXCEPT ![t] = NoLocal]
  /\ UNCHANGED <<request_sequence_number, ws, sock, env, result, app, conn,
                 sent>>

\* What the exchange answers to a request of method n.
Replies(n) ==
  IF n = "authenticateuser"
    THEN { JDict(<<Item(<<"Authenticated">>, JBool(TRUE))>>),
           JDict(<<Item(<<"Authenticated">>, JBool(TRUE)),
                   Item(<<"Requires2FA">>, JBool(TRUE))>>) }
    ELSE { JDict(<<Item(<<"result">>, JBool(TRUE))>>) }

\* A reply frame: message type 1, the request's id and method name.
Reply(f, body) ==
  JDict(<<Item(<<"m">>, JInt(1)),
          Item(<<"i">>, JInt(FrameId(f.frame))),
          Item(<<"n">>, JStr(<<f.method_name>>)),
          Item(<<"o">>, JStr(Dumps(body)))>>)

\* The text the exchange may send on connection t: a reply to a request it
\* got on that connection.
ServerFrames(t) ==
  UNION { {Dumps(Reply(sent[k], body)) : body \in Replies(sent[k].method_name)} :
            k \in {j \in DOMAIN sent : sent[j].conn = t} }

\* Text the exchange, or whatever is at the other end, may send that is no
\* well-formed frame: no JSON at all, a frame without "n", a frame without
\* "i", and a frame whose "o" is no JSON.
MalformedFrames ==
  { <<"oops">>,
    Dumps(JDict(<<Item(<<"m">>, JInt(1)), Item(<<"i">>, JInt(0)),
                  Item(<<"o">>, JStr(<<"{", "}">>))>>)),
    Dumps(JDict(<<Item(<<"m">>, JInt(1)), Item(<<"n">>, JStr(<<"Ping">>)),
                  Item(<<"o">>, JStr(<<"{", "}">>))>>)),
    Dumps(JDict(<<Item(<<"m">>, JInt(1)), Item(<<"i">>, JInt(0)),
                  Item(<<"n">>, JStr(<<"Ping">>)),
                  Item(<<"o">>, JStr(<<"{">>))>>)) }

\* The read loop of reader t reads a text frame and calls on_message.
recv(t) ==
  /\ pc[t] = "reading"
  /\ conn[t] = "open"
  /\ \E message \in ServerFrames(t) \cup MalformedFrames :
       local' = [local EXCEPT ![t] = [NoLocal EXCEPT !.message = message]]
  /\ pc' = [pc EXCEPT ![t] = "on_message"]
  /\ UNCHANGED <<request_sequence_number, ws, sock, env, result, app, conn,
                 sent>>

\* Lines 68-72: what on_message makes of a message: what it prints, or the
\* exception it raises.
NoPayload(err) == [err |-> err, n |-> JNull, payload |-> JNull]

\* Line 70: json.loads(response.get("o", "{}")), o being a str.
DecodePayload(response, o) ==
  CHOOSE r \in
    { IF ~payload.ok THEN NoPayload("JSONDecodeError")
      ELSE [err |-> "", n |-> Get(response, <<"n">>, JNull),
            payload |-> payload.v]
      : payload \in {Loads(o.s)} } : TRUE

Decode(message) ==
  CHOOSE r \in
    { IF ~response.ok THEN NoPayload("JSONDecodeError")
      ELSE IF response.v.t # "dict" THEN NoPayload("AttributeError")
      ELSE CHOOSE q \in
             { IF o.t # "str" THEN NoPayload("TypeError")
               ELSE DecodePayload(response.v, o)
               : o \in {Get(response.v, <<"o">>, JStr(<<"{", "}">>))} } : TRUE
      : response \in {Loads(message)} } : TRUE

\* Lines 61-72: the message is decoded and printed, and that is all: nothing
\* of it is kept or handed on.  An exception goes to on_error.
on_message(t) ==
  /\ pc[t] = "on_message"
  /\ IF Decode(local[t].message).err # ""
       THEN CallbackRaises(t, Decode(local[t].message).err, "reading")
       ELSE /\ pc' = [pc EXCEPT ![t] = "reading"]
            /\ local' = [local EXCEPT ![t] = NoLocal]
  /\ UNCHANGED <<request_sequence_number, ws, sock, env, result, app, conn,
                 sent>>

\* The read loop ends: the exchange closed the connection, or the read
\* failed and on_error is called.  run_forever goes on to tear down.
connection_lost(t) ==
  /\ pc[t] = "reading"
  /\ \/ /\ pc' = [pc EXCEPT ![t] = "teardown"]
        /\ UNCHANGED local
     \/ CallbackRaises(t, "WebSocketConnectionClosedException", "teardown")
  /\ UNCHANGED <<request_sequence_number, ws, sock, env, result, app, conn,
                 sent>>

\* run_forever's teardown: it closes whatever its object's sock is and sets
\* the sock to None; on_close is next.
teardown(t) ==
  /\ pc[t] = "teardown"
  /\ conn' = IF sock[app[t]] # NoSock /\ conn[sock[app[t]]] = "open"
               THEN [conn EXCEPT ![sock[app[t]]] = "closed"]
               ELSE conn
  /\ sock' = [sock EXCEPT ![app[t]] = NoSock]
  /\ pc' = [pc EXCEPT ![t] = "on_close"]
  /\ UNCHANGED <<request_sequence_number, ws, env, local, result, app, sent>>

\* Lines 83-92: on_close prints and calls connect(), and that is all: no
\* thread is started on the new object.  run_forever returns and the thread
\* ends.
on_close(t) ==
  /\ pc[t] = "on_close"
  /\ connect
  /\ pc' = [pc EXCEPT ![t] = "done"]
  /\ UNCHANGED <<sock, env, local, result, app, conn, sent>>

\* ------------------------------------------------------------ specification
Next ==
  \/ \E c \in Callers :
       \/ start(c)
       \/ authenticate(c)
       \/ authenticate_2fa(c)
       \/ get_account_positions(c)
       \/ subscribe_level1(c)
       \/ unsubscribe_level1(c)
       \/ getaccountinfo(c)
       \/ cancellallorders(c)
       \/ getopenorders(c)
       \/ cancelorder(c)
       \/ sendorder(c)
       \/ Return(c)
  \/ \E t \in Readers :
       \/ run_forever_check(t)
       \/ run_forever_connect(t)
       \/ on_open(t)
       \/ on_error(t)
       \/ recv(t)
       \/ on_message(t)
       \/ connection_lost(t)
       \/ teardown(t)
       \/ on_close(t)
  \/ \E th \in Threads :
       \/ SendFrame(th)
       \/ LoadCounter(th)
       \/ StoreCounter(th)

\* Every interleaving of the threads' steps.
Spec == Init /\ [][Next]_vars

\* A thread that is in the middle of a call or a callback.
Busy(th) ==
  IF th \in Callers THEN pc[th] # "idle"
  ELSE pc[th] \notin {"unstarted", "reading", "done", "raised"}

\* Every interleaving of the steps of two threads: at most two threads are
\* in the middle of a call or a callback at a time.
AtMostTwo == Cardinality({th \in Threads : Busy(th)}) <= 2

NextTwo == Next /\ AtMostTwo'

SpecTwo == Init /\ [][NextTwo]_vars

\* Calls and callbacks run one at a time, each to its end.
OneAtATime == Cardinality({th \in Threads : Busy(th)}) <= 1

NextSeq == Next /\ OneAtATime'

SpecSeq == Init /\ [][NextSeq]_vars

\* What a thread does by itself once it has begun: the steps of a call or a
\* callback that is under way, and of run_forever between the callbacks.  A
\* runnable thread gets to run.  Nothing makes a caller call, or the
\* exchange send or close.
Step(th) ==
  \/ SendFrame(th)
  \/ LoadCounter(th)
  \/ StoreCounter(th)
  \/ th \in Callers /\ Return(th)
  \/ th \in Readers /\
       (\/ run_forever_check(th)
        \/ run_forever_connect(th)
        \/ on_open(th)
        \/ on_error(th)
        \/ on_message(th)
        \/ teardown(th)
        \/ on_close(th))

FairSpec == Init /\ [][NextSeq]_vars /\ \A th \in Threads : WF_vars(Step(th) /\ OneAtATime')

\* --------------------------------------------------------------- properties
\* The sequence id of the k-th frame the sockets accepted: as _send_request
\* put it into the frame, and as the text that was written gives it.
SentId(k) == FrameId(sent[k].frame)
WireId(k) == FrameId(Loads(sent[k].text).v)

\* Some thread is between the send and the end of `+= 2`.
MidIncrement == \E th \in Threads : pc[th] \in {"load", "store"}

\* C1: with the operations, the closes and the reconnects coming one after
\* the other, the ids of the frames written are strictly increasing, so no
\* two frames share one: the first is 2 and each later one is larger than
\* all before it; the counter is never set back by connect() or on_close: it
\* stays above every id used (at the id of the last frame until its `+= 2`
\* is done).
C1_SequenceIdsIncrease ==
  /\ sent # <<>> => SentId(1) = 2
  /\ \A j, k \in DOMAIN sent : j < k => SentId(j) < SentId(k)
  /\ \A k \in DOMAIN sent :
       \/ SentId(k) < request_sequence_number
       \/ k = Len(sent) /\ MidIncrement /\ SentId(k) = request_sequence_number

\* C1 at work: frames were written on two connections, the later one on a
\* socket object that on_close made.
C1_FramesAcrossReconnect ==
  \E j, k \in DOMAIN sent :
    j < k /\ sent[j].conn # sent[k].conn /\ app[sent[k].conn] > 0

\* The callback on_open of reader t's connection is over.
Opened(t) == conn[t] # "none" /\ pc[t] \notin {"on_open", "send"}

\* C5: every connection that was opened, the first and every later one, has
\* exactly one frame that its open event caused: it was written on that
\* connection and is an authenticateuser request with the configured
\* username and password, whenever both are configured and whatever was
\* sent on earlier connections.  Before its connection is open a reader has
\* caused no frame.
C5_OneCredentialsRequestPerOpen ==
  \A t \in Readers :
    LET mine == {k \in DOMAIN sent : sent[k].by = t}
    IN /\ ~Opened(t) => mine = {}
       /\ Opened(t) /\ HasCredentials =>
            /\ Cardinality(mine) = 1
            /\ \A k \in mine :
                 /\ sent[k].conn = t
                 /\ sent[k].method_name = "authenticateuser"
                 /\ sent[k].payload = AuthPayload

\* C5 at work: a connection after a reconnect got its credentials request,
\* after an earlier connection got one.
C5_CredentialsAfterReconnect ==
  \E t \in Readers :
    /\ app[t] > 0
    /\ Opened(t)
    /\ \E j, k \in DOMAIN sent :
         /\ j < k
         /\ sent[j].conn # t /\ sent[j].method_name = "authenticateuser"
         /\ sent[k].conn = t /\ sent[k].by = t

\* C9: every frame a request writes is, read back from the text on the
\* wire, the envelope with exactly m = 0, i = the counter as the call found
\* it, n = the method name of the call and o = a string; and decoding o the
\* way on_message does gives the payload of the call back.
C9_EnvelopeRoundTrip ==
  [][Len(sent') > Len(sent) =>
       LET f == sent'[Len(sent')]
           wire == Loads(f.text)
       IN /\ wire.ok
          /\ wire.v.t = "dict"
          /\ Len(wire.v.d) = 4
          /\ Get(wire.v, <<"m">>, JNull) = JInt(0)
          /\ Get(wire.v, <<"i">>, JNull) = JInt(request_sequence_number)
          /\ Get(wire.v, <<"n">>, JNull) = JStr(<<f.method_name>>)
          /\ Get(wire.v, <<"o">>, JNull).t = "str"
          /\ Decode(f.text).err = ""
          /\ Decode(f.text).payload = f.payload]_vars

\* C9 at work: a frame was written whose payload holds a quote and a
\* backslash, which the text on the wire escapes.
C9_EscapedPayloadWritten ==
  \E k \in DOMAIN sent :
    /\ sent[k].method_name = "authenticateuser"
    /\ \E j \in DOMAIN env.PASSWORD.s : env.PASSWORD.s[j] = BS
    /\ \E j \in DOMAIN env.PASSWORD.s : env.PASSWORD.s[j] = Q
    /\ Len(sent[k].text) > Len(Dumps(Frame("authenticateuser", JDict(<<>>), 2)))

\* C2: a reply is handed to the caller whose request carries its id: when
\* on_message is done with an inbound frame with id k, the caller that sent
\* request k has the reply's payload as the result of its call.
C2_ResponseDelivered ==
  [][\A t \in Readers :
       pc[t] = "on_message" /\ pc'[t] # "on_message" =>
         \A k \in DOMAIN sent :
           ( /\ sent[k].by \in Callers
             /\ Get(Loads(local[t].message).v, <<"i">>, JNull) = JInt(WireId(k)) )
           => result'[sent[k].by] =
                Returned(sent[k].method_name, Decode(local[t].message).payload)]_vars

\* C3: with the threads' steps of _send_request interleaved in any way, no
\* two frames carry the same id, and when no `+= 2` is under way the counter
\* is 2 + 2n after n frames.
C3_ThreadSafeSequence ==
  /\ \A j, k \in DOMAIN sent : j # k => WireId(j) # WireId(k)
  /\ ~MidIncrement => request_sequence_number = 2 + 2 * Len(sent)

\* The method names of the calls that need the account id.
AccountMethods ==
  {"GetAccountPositions", "GetAccountInfo", "CancelAllOrders", "GetOpenOrders",
   "CancelOrder", "SendOrder"}

\* The setting the call for method n needs is absent.
SettingAbsent(n) ==
  \/ n = "authenticateuser" /\ ~HasCredentials
  \/ n = "Authenticate2FA" /\ ~HasSecret
  \/ n \in AccountMethods /\ ~Truthy(env.ACCOUNT_ID)

\* The method of the call caller c is in or has just ended.
CallOf(c) == IF pc[c] = "ended" THEN result[c].call ELSE local[c].method_name

\* C8: a call that needs a setting that is absent ends at once with the
\* configuration error (the ValueError the checks raise), with no frame
\* written and the counter as it was.
C8_ConfigurationError ==
  [][\A c \in Callers :
       pc[c] = "idle" /\ pc'[c] # "idle" /\ SettingAbsent(CallOf(c)') =>
         /\ pc'[c] = "ended"
         /\ result'[c] = Raised(CallOf(c)', "ValueError")
         /\ sent' = sent
         /\ request_sequence_number' = request_sequence_number]_vars

\* Reader t is in run_forever's read loop: connected and not yet tearing
\* down.
InReadLoop(t) ==
  \/ pc[t] \in {"on_open", "send", "load", "store", "reading", "on_message"}
  \/ pc[t] = "on_error" /\ local[t].after = "reading"

\* C10: whatever number of start() calls were made, at most one thread is
\* in the read loop on the socket object the client holds.
C10_OneReader ==
  Cardinality({t \in Readers : app[t] = ws /\ InReadLoop(t)}) <= 1

\* A reader was started on a socket object made after the one reader t ran
\* on.
ReaderOnLaterSocket(t) ==
  \E u \in Readers : pc[u] # "unstarted" /\ app[u] > app[t]

\* C4: every on_close, at a time when a thread is left that could be
\* started, is followed sooner or later by a reader that runs on a socket
\* object made after the close.
C4_ReconnectRuns ==
  \A t \in Readers :
    []( (pc[t] = "done" /\ \E u \in Readers : pc[u] = "unstarted")
          => <>ReaderOnLaterSocket(t) )

\* Reader t's on_message has the reply to the credentials request in hand.
CredentialsReply(t) ==
  /\ pc[t] = "on_message"
  /\ Decode(local[t].message).err = ""
  /\ Decode(local[t].message).n = JStr(<<"authenticateuser">>)

\* That reply asks for the second factor.
Requires2FA(t) ==
  /\ CredentialsReply(t)
  /\ Get(Decode(local[t].message).payload, <<"Requires2FA">>, JBool(FALSE))
       = JBool(TRUE)

\* An Authenticate2FA frame was written on reader t's connection.
Sent2FA(t) ==
  \E k \in DOMAIN sent :
    sent[k].conn = t /\ sent[k].method_name = "Authenticate2FA"

\* C6: a reply that asks for the second factor, on a connection on which no
\* Authenticate2FA frame was written yet, is followed by an Authenticate2FA
\* frame on that connection, whatever the caller does.
C6_TwoFactorFollows ==
  \A t \in Readers : (Requires2FA(t) /\ ~Sent2FA(t)) ~> Sent2FA(t)

\* Frame k is a subscription that is active on its connection: a
\* SubscribeLevel1 that no later UnsubscribeLevel1 with its payload followed.
ActiveSubscription(k) ==
  /\ sent[k].method_name = "SubscribeLevel1"
  /\ ~\E j \in DOMAIN sent :
        /\ j > k
        /\ sent[j].conn = sent[k].conn
        /\ sent[j].method_name = "UnsubscribeLevel1"
        /\ sent[j].payload = sent[k].payload

\* The subscriptions that were active on connection old were all sent again
\* on connection new.
Resubscribed(old, new) ==
  \A k \in DOMAIN sent :
    sent[k].conn = old /\ ActiveSubscription(k) =>
      \E j \in DOMAIN sent :
        /\ sent[j].conn = new
        /\ sent[j].method_name = "SubscribeLevel1"
        /\ sent[j].payload = sent[k].payload

\* Reader t's on_message has in hand the reply that completes the
\* authentication of its connection.
Authenticated(t) ==
  /\ CredentialsReply(t)
  /\ Get(Decode(local[t].message).payload, <<"Authenticated">>, JBool(FALSE))
       = JBool(TRUE)
  /\ ~Requires2FA(t)

\* C7: once a connection made after a drop has completed authentication,
\* the subscriptions that were active on the dropped connection are sent
\* again on it.
C7_Resubscribes ==
  \A old, new \in Readers :
    ( /\ old < new
      /\ conn[old] = "closed"
      /\ Authenticated(new)
      /\ \E k \in DOMAIN sent : sent[k].conn = old /\ ActiveSubscription(k) )
    ~> Resubscribed(old, new)

\* Dict x has a member named key.
HasKey(x, key) == \E k \in DOMAIN x.d : x.d[k].k = key

\* The message is no well-formed frame: its text is no JSON or no JSON
\* object, "n" or "i" is missing, or its "o" is no string of JSON.
MalformedFrame(message) ==
  LET response == Loads(message)
      o == Get(response.v, <<"o">>, JStr(<<"{", "}">>))
  IN \/ ~response.ok
     \/ response.v.t # "dict"
     \/ ~HasKey(response.v, <<"n">>)
     \/ ~HasKey(response.v, <<"i">>)
     \/ o.t # "str"
     \/ ~Loads(o.s).ok

\* C11: when on_message is done with a frame that is not well-formed, the
\* frame was reported (on_error is called with the error), the read loop
\* goes on to the next frame, the connection is as it was (not closed), and
\* the counter and the socket object are unchanged.
C11_DecodeErrorScoped ==
  [][\A t \in Readers :
       ( /\ pc[t] = "on_message"
         /\ pc'[t] # "on_message"
         /\ MalformedFrame(local[t].message) )
       => /\ pc'[t] = "on_error"
          /\ local'[t].err # ""
          /\ local'[t].after = "reading"
          /\ conn' = conn
          /\ sock' = sock
          /\ ws' = ws
          /\ request_sequence_number' = request_sequence_number]_vars

\* C12: with one call or callback at a time, the counter is even, at least
\* 2, and 2 + 2n after the n-th frame the socket accepted (one step behind,
\* at 2n, between the send of the n-th frame and the end of its `+= 2`):
\* a send that raises and every other action leave it as it is.
C12_CounterCountsFrames ==
  /\ request_sequence_number % 2 = 0
  /\ request_sequence_number >= 2
  /\ request_sequence_number =
       IF MidIncrement THEN 2 * Len(sent) ELSE 2 + 2 * Len(sent)

\* C12 at work: after a frame was accepted, a call's send raised because
\* the socket is closed, and the counter is where the frame left it.
C12_SendRaisedCounterKept ==
  \E c \in Callers :
    /\ pc[c] = "ended"
    /\ result[c] = Raised(result[c].call, "WebSocketConnectionClosedException")
    /\ sent # <<>>
    /\ request_sequence_number = 2 + 2 * Len(sent)
====
